---- MODULE Spec2Model ----
(***************************************************************************)
(* stan::mcmc::base_hmc (src/src/stan/mcmc/hmc/base_hmc.hpp): the step     *)
(* size initialisation search init_stepsize and the operations that set    *)
(* the sampler's point, its nominal step size, its step size jitter and    *)
(* its current step size; and stan::io::writer                             *)
(* (src/src/stan/io/writer.hpp): its constructor and the write operations  *)
(* that are written out in that file (integer, scalar_unconstrain,         *)
(* scalar_pos_unconstrain, ordered_unconstrain,                            *)
(* positive_ordered_unconstrain, vector_unconstrain).                      *)
(*                                                                         *)
(* Step sizes are doubles.  They are modelled as a binary floating point   *)
(* format whose smallest positive value is 2^-FracBits: a step size is a   *)
(* natural number of such units, 2.0 * x is exact, and 0.5 * x is rounded  *)
(* to nearest, ties to even, when x is an odd number of units (what IEEE   *)
(* 754 does in the subnormal range), so that halving reaches exactly 0.    *)
(* Energies are doubles too: NaN, the infinities, or a finite value, the   *)
(* finite ones counted in units of -ln(0.8), which puts the threshold      *)
(* std::log(0.8) at -1.  The jitter fraction and the uniform draws are     *)
(* doubles counted in units of 2^-FracBits as well, and the product of     *)
(* sample_stepsize is rounded to the format like 0.5 * x.                  *)
(***************************************************************************)
EXTENDS Integers, Sequences, FiniteSets, TLC

\* ------------------------------------------------------------- bounds
\* the smallest positive step size is 2^-FracBits
FracBits == 3
\* finite energies returned by H range over 0..MaxEnergy
MaxEnergy == 1
\* init_stepsize runs its search (passes the skip test of line 86) at most
\* MaxSearches times in a behaviour; calls that skip are not limited
MaxSearches == 1
\* a call of init_stepsize makes at most MaxProbes evolve calls; no search
\* of the program gets that far (HmcSearchTerminates fails if one does)
MaxProbes == 40
\* number of unconstrained parameters of the model (length of q and p)
Dim == 1
\* a writer is handed at most MaxWritten values, reals and integers together
MaxWritten == 4
\* the vectors handed to a writer have at most MaxVector coefficients
MaxVector == 2

\* ---------------------------------------------------- program constants
\* the 1e7 of lines 86 and 131
StepLimit == 10000000
\* std::log(0.8) of lines 104, 123, 125, in units of -ln(0.8)
LogThreshold == -1

RECURSIVE Pow2(_)
Pow2(n) == IF n = 0 THEN 1 ELSE 2 * Pow2(n - 1)

\* one unit of step size is 2^-FracBits, so 1.0 is Unit units
Unit == Pow2(FracBits)
\* 1e7 in units
Limit == StepLimit * Unit
\* nom_epsilon_{0.1}: 0.1 rounded to the nearest value of the format
InitEpsilon == (Unit + 5) \div 10

\* ------------------------------------------------------- double energies
NaN == [k |-> "nan", v |-> 0]
PInf == [k |-> "pinf", v |-> 0]
NInf == [k |-> "ninf", v |-> 0]
Fin(n) == [k |-> "fin", v |-> n]

\* IEEE 754 subtraction a - b (line 102, line 121)
Sub(a, b) ==
  IF a.k = "nan" \/ b.k = "nan" THEN NaN
  ELSE IF a.k = "pinf" THEN (IF b.k = "pinf" THEN NaN ELSE PInf)
  ELSE IF a.k = "ninf" THEN (IF b.k = "ninf" THEN NaN ELSE NInf)
  ELSE IF b.k = "pinf" THEN NInf
  ELSE IF b.k = "ninf" THEN PInf
  ELSE Fin(a.v - b.v)

\* a > t for a double a and a finite t: false when a is NaN
Gt(a, t) == a.k = "pinf" \/ (a.k = "fin" /\ a.v > t)
\* a < t for a double a and a finite t: false when a is NaN
Lt(a, t) == a.k = "ninf" \/ (a.k = "fin" /\ a.v < t)

\* ------------------------------------------------------- double step sizes
\* 2.0 * x: exact
Twice(x) == 2 * x
\* 0.5 * x: exact for an even number of units, else round to nearest even
Half(x) ==
  IF x % 2 = 0 THEN x \div 2
  ELSE IF (x \div 2) % 2 = 0 THEN x \div 2 ELSE (x \div 2) + 1

\* a * n / d for a >= 0, n >= 0 and d > 0, rounded to nearest, ties to
\* even: how a double product is rounded to the format (a is split at d
\* to keep the intermediate products small)
MulDiv(a, n, d) ==
  LET lo == (a % d) * n
      qt == (a \div d) * n + (lo \div d)
      rm == lo % d
  IN  IF 2 * rm < d THEN qt
      ELSE IF 2 * rm > d THEN qt + 1
      ELSE IF qt % 2 = 0 THEN qt ELSE qt + 1

\* line 169: 1.0 + epsilon_jitter_ * (2.0 * u - 1.0), as a number of
\* 1 / (Unit * Unit): exact for the jitter fractions and draws of the model
JitterFactor(j, un) == Unit * Unit + j * (2 * un - Unit)

\* (variant: the - 1.0 left out)
JitteredOneSided(eps, j, un) ==
  MulDiv(eps, Unit * Unit + j * 2 * un, Unit * Unit)

\* lines 168-169: epsilon_ *= 1.0 + epsilon_jitter_ * (2.0 * u - 1.0)
Jittered(eps, j, un) == MulDiv(eps, JitterFactor(j, un), Unit * Unit)

\* (variant: the test written with >= 0 and <= 1)
JitterAcceptedClosed(j) == j >= 0 /\ j <= Unit

\* line 159: if (j > 0 && j < 1)
JitterAccepted(j) == j > 0 /\ j < Unit

\* (variant: the jitter applied to nom_epsilon_ as well)
NominalAfterSampleJittered(nom, eps) == eps

\* lines 165-170: sample_stepsize reads nom_epsilon_ and does not assign it
NominalAfterSample(nom, eps) == nom

\* ------------------------------------------------ the writer's doubles
\* log(x) for a double x of integer value: NaN below 0, -infinity at 0,
\* 0 at 1, and a value that is no integer above 1
Log(x) ==
  IF x < 0 THEN NaN
  ELSE IF x = 0 THEN NInf
  ELSE IF x = 1 THEN Fin(0)
  ELSE [k |-> "log", v |-> x]

\* stan::math::check_ordered (writer.hpp line 220) passes: each
\* coefficient is greater than the one before it
CheckOrdered(y) == \A i \in 2..Len(y) : y[i] > y[i - 1]

\* stan::math::check_positive_ordered (writer.hpp lines 250-251) passes:
\* the first coefficient is not negative and the vector is ordered
CheckPositiveOrdered(y) == (Len(y) > 0 => y[1] >= 0) /\ CheckOrdered(y)

\* writer.hpp lines 223 and 254: log(y[i] - y[i - 1]) for the coefficients
\* after the first
LogIncrements(y) == [i \in 1..(Len(y) - 1) |-> Log(y[i + 1] - y[i])]

\* writer.hpp lines 221-224: what ordered_unconstrain pushes for a
\* non-empty y
OrderedFree(y) == <<Fin(y[1])>> \o LogIncrements(y)

\* writer.hpp lines 252-255: what positive_ordered_unconstrain pushes for a
\* non-empty y
PositiveOrderedFree(y) == <<Log(y[1])>> \o LogIncrements(y)

\* writer.hpp lines 265-267: what vector_unconstrain pushes
VectorFree(y) == [i \in 1..Len(y) |-> Fin(y[i])]

\* writer.hpp line 291: the pushes of the inner loop for column j,
\* y(0, j), y(1, j), ...
MatrixColumn(y, j) == [i \in 1..y.rows |-> Fin(y.at[<<i, j>>])]

\* writer.hpp lines 289-291: the pushes of the columns 1..j, in this order
RECURSIVE MatrixColumns(_, _)
MatrixColumns(y, j) ==
  IF j = 0 THEN << >> ELSE MatrixColumns(y, j - 1) \o MatrixColumn(y, j)

\* (variant: the loops exchanged, rows outside and columns inside)
MatrixFreeRowMajor(y) ==
  [k \in 1..(y.rows * y.cols) |->
     Fin(y.at[<<((k - 1) \div y.cols) + 1, ((k - 1) % y.cols) + 1>>])]

\* writer.hpp lines 287-294: what matrix_unconstrain pushes
MatrixFree(y) == MatrixColumns(y, y.cols)

\* writer.hpp lines 53-54: data_r_.clear(), data_i_.clear()
Cleared(v) == << >>

\* --------------------------------------------------------- collaborators
\* coordinates of a point
Values == {0, 1}
Vectors(n) == [1..n -> Values]
\* what Hamiltonian::H may return, by the kind of Hamiltonian the sampler
\* was instantiated with: "any" returns any energy, "nan" always NaN,
\* "pinf" always +infinity, "zero" always 0
HRange(ham) ==
  IF ham = "nan" THEN {NaN}
  ELSE IF ham = "pinf" THEN {PInf}
  ELSE IF ham = "zero" THEN {Fin(0)}
  ELSE {Fin(n) : n \in 0..MaxEnergy} \cup {NaN, PInf}
\* Hamiltonian::sample_p(z, rng): a fresh momentum of the same length
SampleP(z) == {[z EXCEPT !.p = p] : p \in Vectors(Len(z.p))}
\* Integrator::evolve(z, hamiltonian, epsilon, logger): moves q and p
Evolve(z) == {[q |-> q, p |-> p] : q \in Vectors(Len(z.q)), p \in Vectors(Len(z.p))}
\* what boost::uniform_01 (line 181) returns: a double in [0, 1), in units
Uniform01 == {0, Unit \div 2, Unit - 1}

VARIABLES
  z_,            \* the sampler's point: [q |-> position, p |-> momentum]
  nom_epsilon_,  \* nominal step size, in units
  hamiltonian_,  \* the kind of Hamiltonian: "any", "nan", "pinf" or "zero"
  pc,            \* "idle", or where init_stepsize is: "loop" (in while (1),
                 \* at line 109, after the restore of line 107), "skipped"
                 \* (returned at line 87), "accepted" (returned after line
                 \* 142), "failed" (threw)
  error,         \* which runtime_error was thrown: "none", "improper", "underflow"
  z_init,        \* init_stepsize's local copy of the point (line 83)
  direction,     \* init_stepsize's local direction: 1, -1 (0 before line 104)
  H0,            \* the last probe's H0
  h_raw,         \* what H returned for the last probe's h (line 98, 117)
  h,             \* the last probe's h, after the isnan test
  delta_H,       \* the last probe's delta_H
  probes,        \* evolve calls made by the current init_stepsize call
  rng_draws,     \* sample_p calls made by the current init_stepsize call
  H_calls,       \* H calls made by the current init_stepsize call
  probe_eps,     \* step size handed to the last evolve
  prev_probe_eps,\* step size handed to the evolve before that
  eps_entry,     \* nominal step size when init_stepsize was entered
  z_entry,       \* the point when init_stepsize was entered
  searches,      \* init_stepsize calls so far that ran the search
  epsilon_,      \* current step size, in units
  epsilon_jitter_, \* jitter fraction, in units (Unit is 1.0)
  u,             \* what rand_uniform_() returned to the last operation, in
                 \* units (0 when it made no draw)
  u_draws,       \* rand_uniform_() calls made by the last operation
  probe_from,    \* the point z_ held when the last probe called sample_p
  probe_calls,   \* the calls the last probe made on the Hamiltonian and
                 \* the integrator, in order
  L_stale,       \* nom_epsilon_ was assigned after the last update_L_()
  w_pc,          \* the writer: "none" before its construction, then "ready"
  w_error,       \* what the last writer operation threw: "none",
                 \* "runtime" (std::runtime_error), "domain" (a check failed)
  caller_r,      \* the vector of reals the writer was constructed with
  caller_i,      \* the vector of integers the writer was constructed with
  data_r_,       \* the writer's reals
  data_i_        \* the writer's integers

hmc_vars == <<z_, nom_epsilon_, hamiltonian_, pc, error, z_init, direction,
              H0, h_raw, h, delta_H, probes, rng_draws, H_calls, probe_eps,
              prev_probe_eps, eps_entry, z_entry, searches, epsilon_,
              epsilon_jitter_, u, u_draws, probe_from, probe_calls,
              L_stale>>

writer_vars == <<w_pc, w_error, caller_r, caller_i, data_r_, data_i_>>

vars == <<hmc_vars, writer_vars>>

\* ------------------------------------------------ pieces of init_stepsize
\* (variant: the skip test written with >= 1e7)
SkipInitAtLimit(eps) == eps = 0 \/ eps >= Limit

\* line 86: skip initialization for extreme step sizes
SkipInit(eps) == eps = 0 \/ eps > Limit

\* (variant: the isnan test left out)
KeepNaN(e) == e

\* lines 99-100 and 118-119: if (isnan(h)) h = infinity
CoerceNaN(e) == IF e.k = "nan" THEN PInf ELSE e

\* lines 89-96 and 109-115: sample_p, init, (H0), evolve: the points one
\* probe can leave in z_ when it starts from z
Probe(z) == UNION {Evolve(zs) : zs \in SampleP(z)}

\* (variant: H0 taken before the momentum is resampled)
ProbeCallsEnergyFirst == <<"H", "sample_p", "init", "evolve", "H">>

\* lines 89-98 and 109-117: the calls of one probe
ProbeCalls == <<"sample_p", "init", "H", "evolve", "H">>

\* line 104: int direction = delta_H > std::log(0.8) ? 1 : -1
Direction(d) == IF Gt(d, LogThreshold) THEN 1 ELSE -1

\* (variant: the break conditions without their negations)
BreakOnDirectionSide(dir, d) ==
  \/ dir = 1 /\ Gt(d, LogThreshold)
  \/ dir = -1 /\ Lt(d, LogThreshold)

\* (variant: !(delta_H < log(0.8)) written as delta_H >= log(0.8), which
\* differs for a NaN delta_H)
BreakOnGreaterEqual(dir, d) ==
  \/ dir = 1 /\ ~Gt(d, LogThreshold)
  \/ dir = -1 /\ (d.k = "pinf" \/ (d.k = "fin" /\ d.v >= LogThreshold))

\* (variant: !(delta_H > log(0.8)) written as delta_H < log(0.8) and
\* !(delta_H < log(0.8)) as delta_H > log(0.8), which differ for a delta_H
\* equal to log(0.8))
BreakPastThreshold(dir, d) ==
  \/ dir = 1 /\ Lt(d, LogThreshold)
  \/ dir = -1 /\ Gt(d, LogThreshold)

\* lines 123-126: the two break conditions
BreakCond(dir, d) ==
  \/ dir = 1 /\ ~Gt(d, LogThreshold)
  \/ dir = -1 /\ ~Lt(d, LogThreshold)

\* (variant: the product computed but not stored in nom_epsilon_)
RescaleNotStored(dir, eps) == eps

\* (variant: the two factors exchanged)
RescaleSwapped(dir, eps) == IF dir = 1 THEN Half(eps) ELSE Twice(eps)

\* lines 128-129: nom_epsilon_ = direction == 1 ? 2.0 * eps : 0.5 * eps
Rescale(dir, eps) == IF dir = 1 THEN Twice(eps) ELSE Half(eps)

\* (variant: the test written with >= 1e7)
ThrowsImproperAtLimit(eps) == eps >= Limit

\* line 131: if (nom_epsilon_ > 1e7) throw "Posterior is improper"
ThrowsImproper(eps) == eps > Limit

\* (variant: the test for 0 left out)
ThrowsUnderflowNever(eps) == FALSE

\* line 135: if (nom_epsilon_ == 0) throw "No acceptably small step size"
ThrowsUnderflow(eps) == eps = 0

\* (variant: line 107 left out)
NoRestoreAtLoopTop(zi, z) == z

\* line 107: this->z_.ps_point::operator=(z_init) at the top of the loop
RestoreAtLoopTop(zi, z) == zi

\* (variant: line 142 left out)
NoRestoreAfterLoop(zi, z) == z

\* line 142: this->z_.ps_point::operator=(z_init) after the loop
RestoreAfterLoop(zi, z) == zi

\* the point an exception leaves behind: the throw statements of lines
\* 132 and 136 are not preceded by any assignment to z_
PointAtThrow(zi, z) == z

\* ------------------------------------------------------------------ Init
\* base_hmc(model, rng): z_(model.num_params_r()) leaves the coordinates
\* of q and p unset; nom_epsilon_{0.1}
\* epsilon_{0.1}, epsilon_jitter_{0.0}
Constructed ==
  /\ z_ \in {[q |-> q, p |-> p] : q \in Vectors(Dim), p \in Vectors(Dim)}
  /\ nom_epsilon_ = InitEpsilon
  /\ epsilon_ = InitEpsilon
  /\ epsilon_jitter_ = 0
  /\ u = 0
  /\ u_draws = 0
  /\ probe_from = z_
  /\ probe_calls = << >>
  /\ L_stale = FALSE
  /\ pc = "idle"
  /\ error = "none"
  /\ z_init = z_
  /\ direction = 0
  /\ H0 = Fin(0)
  /\ h_raw = Fin(0)
  /\ h = Fin(0)
  /\ delta_H = Fin(0)
  /\ probes = 0
  /\ rng_draws = 0
  /\ H_calls = 0
  /\ probe_eps = 0
  /\ prev_probe_eps = 0
  /\ eps_entry = InitEpsilon
  /\ z_entry = z_
  /\ searches = 0

\* no writer has been constructed
NoWriter ==
  /\ w_pc = "none"
  /\ w_error = "none"
  /\ caller_r = << >>
  /\ caller_i = << >>
  /\ data_r_ = << >>
  /\ data_i_ = << >>

\* a sampler over any of the three kinds of Hamiltonian
Init ==
  /\ Constructed
  /\ hamiltonian_ \in {"any", "nan", "pinf"}
  /\ NoWriter

\* a sampler over a Hamiltonian of constant energy
ChainInit ==
  /\ Constructed
  /\ hamiltonian_ \in {"zero", "pinf"}
  /\ NoWriter

\* a program that is about to construct a writer on vectors of its own,
\* empty or not (the sampler plays no part)
WriterInit ==
  /\ Constructed
  /\ z_ = [q |-> [i \in 1..Dim |-> 0], p |-> [i \in 1..Dim |-> 0]]
  /\ hamiltonian_ = "pinf"
  /\ w_pc = "none"
  /\ w_error = "none"
  /\ caller_r \in {<< >>, <<Fin(2)>>}
  /\ caller_i \in {<< >>, <<1>>}
  /\ data_r_ = << >>
  /\ data_i_ = << >>

\* the locals of a finished init_stepsize call are gone
Forget ==
  /\ pc' = "idle"
  /\ error' = "none"
  /\ z_init' = z_'
  /\ direction' = 0
  /\ H0' = Fin(0)
  /\ h_raw' = Fin(0)
  /\ h' = Fin(0)
  /\ delta_H' = Fin(0)
  /\ probes' = 0
  /\ rng_draws' = 0
  /\ H_calls' = 0
  /\ probe_eps' = 0
  /\ prev_probe_eps' = 0
  /\ eps_entry' = nom_epsilon_'
  /\ z_entry' = z_'
  /\ probe_from' = z_'
  /\ probe_calls' = << >>

\* an operation that does not call rand_uniform_
NoDraw == u' = 0 /\ u_draws' = 0

\* --------------------------------------------------------------- actions
\* the arguments seed is called with: the vectors of the model's length
\* and one that is longer
SeedArgs == Vectors(Dim) \cup {[i \in 1..(Dim + 1) |-> 0]}

\* seed(q): z_.q = q
seed ==
  /\ pc # "loop"
  /\ \E q \in SeedArgs : z_' = [z_ EXCEPT !.q = q]
  /\ UNCHANGED <<nom_epsilon_, hamiltonian_, searches, epsilon_,
                 epsilon_jitter_, L_stale, writer_vars>>
  /\ Forget
  /\ NoDraw

\* the arguments set_nominal_stepsize is called with: -1.0, 0, three units,
\* 1250000, 1e7 and 2e7
NominalArgs == {0 - Unit, 0, 3, Limit \div 8, Limit, 2 * Limit}

\* line 171: update_L_() hands over to the derived sampler, which
\* recomputes what it derives from nom_epsilon_
update_L_ == L_stale' = FALSE

\* set_nominal_stepsize(e): if (e > 0) nom_epsilon_ = e; update_L_()
set_nominal_stepsize ==
  /\ pc # "loop"
  /\ \E e \in NominalArgs : nom_epsilon_' = IF e > 0 THEN e ELSE nom_epsilon_
  /\ update_L_
  /\ UNCHANGED <<z_, hamiltonian_, searches, epsilon_, epsilon_jitter_,
                 writer_vars>>
  /\ Forget
  /\ NoDraw

\* init_stepsize, lines 83-107: the copy of the point, the skip test, the
\* first probe, which fixes the direction, and the entry into while (1).
\* The Hamiltonian and the integrator work on points whose q and p have
\* the same length: the search is not modelled from any other point.
init_stepsize ==
  /\ pc # "loop"
  /\ Len(z_.q) = Len(z_.p)
  /\ SkipInit(nom_epsilon_) \/ searches < MaxSearches
  /\ searches' = IF SkipInit(nom_epsilon_) THEN searches ELSE searches + 1
  /\ z_init' = z_
  /\ eps_entry' = nom_epsilon_
  /\ z_entry' = z_
  /\ error' = "none"
  /\ UNCHANGED <<nom_epsilon_, hamiltonian_, epsilon_, epsilon_jitter_,
                 L_stale, writer_vars>>
  /\ NoDraw
  /\ IF SkipInit(nom_epsilon_)
     THEN /\ pc' = "skipped"
          /\ z_' = z_
          /\ probe_from' = z_
          /\ probe_calls' = << >>
          /\ direction' = 0
          /\ H0' = Fin(0)
          /\ h_raw' = Fin(0)
          /\ h' = Fin(0)
          /\ delta_H' = Fin(0)
          /\ probes' = 0
          /\ rng_draws' = 0
          /\ H_calls' = 0
          /\ probe_eps' = 0
          /\ prev_probe_eps' = 0
     ELSE \E e0 \in HRange(hamiltonian_), e1 \in HRange(hamiltonian_) :
            /\ H0' = e0
            /\ h_raw' = e1
            /\ h' = CoerceNaN(e1)
            /\ rng_draws' = 1
            /\ H_calls' = 2
            /\ probe_from' = z_
            /\ probe_calls' = ProbeCalls
            /\ delta_H' = Sub(H0', h')
            /\ direction' = Direction(delta_H')
            /\ z_' \in {RestoreAtLoopTop(z_init', ze) : ze \in Probe(z_)}
            /\ probes' = 1
            /\ probe_eps' = nom_epsilon_
            /\ prev_probe_eps' = 0
            /\ pc' = "loop"

\* init_stepsize, lines 109-139: one iteration of while (1), followed by
\* the restore of line 142 when it breaks out of the loop, and by that of
\* line 107 when it goes round again
init_stepsize_loop ==
  /\ pc = "loop"
  /\ probes < MaxProbes
  /\ UNCHANGED <<hamiltonian_, z_init, direction, eps_entry, z_entry,
                 searches, epsilon_, epsilon_jitter_, u, u_draws, writer_vars>>
  /\ \E e0 \in HRange(hamiltonian_), e1 \in HRange(hamiltonian_) :
       /\ H0' = e0
       /\ h_raw' = e1
       /\ h' = CoerceNaN(e1)
       /\ rng_draws' = rng_draws + 1
       /\ H_calls' = H_calls + 2
       /\ probe_from' = z_
       /\ probe_calls' = ProbeCalls
       /\ delta_H' = Sub(H0', h')
       /\ probes' = probes + 1
       /\ probe_eps' = nom_epsilon_
       /\ prev_probe_eps' = probe_eps
       /\ IF BreakCond(direction, delta_H')
          THEN /\ nom_epsilon_' = nom_epsilon_
               /\ L_stale' = L_stale
               /\ z_' \in {RestoreAfterLoop(z_init, ze) : ze \in Probe(z_)}
               /\ pc' = "accepted"
               /\ error' = "none"
          ELSE /\ nom_epsilon_' = Rescale(direction, nom_epsilon_)
               /\ L_stale' = TRUE
               /\ IF ThrowsImproper(nom_epsilon_')
                  THEN /\ pc' = "failed"
                       /\ error' = "improper"
                       /\ z_' \in {PointAtThrow(z_init, ze) : ze \in Probe(z_)}
                  ELSE IF ThrowsUnderflow(nom_epsilon_')
                  THEN /\ pc' = "failed"
                       /\ error' = "underflow"
                       /\ z_' \in {PointAtThrow(z_init, ze) : ze \in Probe(z_)}
                  ELSE /\ pc' = "loop"
                       /\ error' = "none"
                       /\ z_' \in
                            {RestoreAtLoopTop(z_init, ze) : ze \in Probe(z_)}

\* the arguments set_stepsize_jitter is called with: -1.0, 0, 0.25, 0.5,
\* 1.0 and 2.0
JitterArgs == {0 - Unit, 0, Unit \div 4, Unit \div 2, Unit, 2 * Unit}

\* set_stepsize_jitter(j): if (j > 0 && j < 1) epsilon_jitter_ = j
set_stepsize_jitter ==
  /\ pc # "loop"
  /\ \E j \in JitterArgs :
       epsilon_jitter_' = IF JitterAccepted(j) THEN j ELSE epsilon_jitter_
  /\ UNCHANGED <<z_, nom_epsilon_, hamiltonian_, searches, epsilon_,
                 L_stale, writer_vars>>
  /\ Forget
  /\ NoDraw

\* sample_stepsize: epsilon_ = nom_epsilon_; if (epsilon_jitter_) epsilon_
\* *= 1.0 + epsilon_jitter_ * (2.0 * rand_uniform_() - 1.0)
sample_stepsize ==
  /\ pc # "loop"
  /\ IF epsilon_jitter_ # 0
     THEN \E un \in Uniform01 :
            /\ u' = un
            /\ u_draws' = 1
            /\ epsilon_' = Jittered(nom_epsilon_, epsilon_jitter_, un)
     ELSE /\ NoDraw
          /\ epsilon_' = nom_epsilon_
  /\ nom_epsilon_' = NominalAfterSample(nom_epsilon_, epsilon_')
  /\ UNCHANGED <<z_, hamiltonian_, searches, epsilon_jitter_, L_stale,
                 writer_vars>>
  /\ Forget

\* init_hamiltonian: hamiltonian_.init(z_, logger) recomputes what z_
\* caches of the potential at q; q and p stay
init_hamiltonian ==
  /\ pc # "loop"
  /\ UNCHANGED <<z_, nom_epsilon_, hamiltonian_, searches, epsilon_,
                 epsilon_jitter_, L_stale, writer_vars>>
  /\ Forget
  /\ NoDraw

\* write_sampler_stepsize, write_sampler_metric, write_sampler_state: a
\* line "Step size = <nom_epsilon_>" and the metric go to the sink
write_sampler_state ==
  /\ pc # "loop"
  /\ UNCHANGED <<z_, nom_epsilon_, hamiltonian_, searches, epsilon_,
                 epsilon_jitter_, L_stale, writer_vars>>
  /\ Forget
  /\ NoDraw

\* get_sampler_diagnostic_names, get_sampler_diagnostics,
\* get_nominal_stepsize, get_current_stepsize, get_stepsize_jitter: return
\* this->nom_epsilon_, this->epsilon_, this->epsilon_jitter_
get_stepsize ==
  /\ pc # "loop"
  /\ UNCHANGED <<z_, nom_epsilon_, hamiltonian_, searches, epsilon_,
                 epsilon_jitter_, L_stale, writer_vars>>
  /\ Forget
  /\ NoDraw

\* the operations the step size search reads from and writes to
Next ==
  \/ seed
  \/ set_nominal_stepsize
  \/ init_stepsize
  \/ init_stepsize_loop

Spec == Init /\ [][Next]_vars

\* --------------------------------------------------- writer operations
\* the integers, the doubles and the vectors the write operations are
\* called with
IntArgs == {0, 1}
RealArgs == {0 - 1, 1, 2}
VectorArgs == UNION {[1..n -> RealArgs] : n \in 0..MaxVector}

\* room for n more values
Room(n) == Len(data_r_) + Len(data_i_) + n <= MaxWritten

\* writer(data_r, data_i): data_r_(data_r), data_i_(data_i) copy the two
\* vectors into the members, which are then cleared
writer ==
  /\ w_pc = "none"
  /\ w_pc' = "ready"
  /\ w_error' = "none"
  /\ data_r_' = Cleared(caller_r)
  /\ data_i_' = Cleared(caller_i)
  /\ UNCHANGED <<caller_r, caller_i, hmc_vars>>

\* integer(n): data_i_.push_back(n)
integer ==
  /\ w_pc = "ready"
  /\ Room(1)
  /\ \E n \in IntArgs : data_i_' = Append(data_i_, n)
  /\ w_error' = "none"
  /\ UNCHANGED <<w_pc, data_r_, caller_r, caller_i, hmc_vars>>

\* scalar_unconstrain(y): data_r_.push_back(y)
scalar_unconstrain ==
  /\ w_pc = "ready"
  /\ Room(1)
  /\ \E y \in RealArgs : data_r_' = Append(data_r_, Fin(y))
  /\ w_error' = "none"
  /\ UNCHANGED <<w_pc, data_i_, caller_r, caller_i, hmc_vars>>

\* scalar_pos_unconstrain(y): throws if y < 0.0, else
\* data_r_.push_back(log(y))
scalar_pos_unconstrain ==
  /\ w_pc = "ready"
  /\ Room(1)
  /\ \E y \in RealArgs :
       IF y < 0
       THEN w_error' = "runtime" /\ data_r_' = data_r_
       ELSE w_error' = "none" /\ data_r_' = Append(data_r_, Log(y))
  /\ UNCHANGED <<w_pc, data_i_, caller_r, caller_i, hmc_vars>>

\* ordered_unconstrain(y), lines 215-225
OrderedUnconstrain(y) ==
  /\ w_pc = "ready"
  /\ Room(Len(y))
  /\ IF Len(y) = 0
     THEN w_error' = "none" /\ data_r_' = data_r_
     ELSE IF ~CheckOrdered(y)
     THEN w_error' = "domain" /\ data_r_' = data_r_
     ELSE w_error' = "none" /\ data_r_' = data_r_ \o OrderedFree(y)
  /\ UNCHANGED <<w_pc, data_i_, caller_r, caller_i, hmc_vars>>

ordered_unconstrain == \E y \in VectorArgs : OrderedUnconstrain(y)

\* positive_ordered_unconstrain(y), lines 243-256
PositiveOrderedUnconstrain(y) ==
  /\ w_pc = "ready"
  /\ Room(Len(y))
  /\ IF Len(y) = 0
     THEN w_error' = "none" /\ data_r_' = data_r_
     ELSE IF ~CheckPositiveOrdered(y)
     THEN w_error' = "domain" /\ data_r_' = data_r_
     ELSE w_error' = "none" /\ data_r_' = data_r_ \o PositiveOrderedFree(y)
  /\ UNCHANGED <<w_pc, data_i_, caller_r, caller_i, hmc_vars>>

positive_ordered_unconstrain ==
  \E y \in VectorArgs : PositiveOrderedUnconstrain(y)

\* vector_unconstrain(y): data_r_.push_back(y[i]) for each i
VectorUnconstrain(y) ==
  /\ w_pc = "ready"
  /\ Room(Len(y))
  /\ data_r_' = data_r_ \o VectorFree(y)
  /\ w_error' = "none"
  /\ UNCHANGED <<w_pc, data_i_, caller_r, caller_i, hmc_vars>>

vector_unconstrain == \E y \in VectorArgs : VectorUnconstrain(y)

\* row_vector_unconstrain(y): data_r_.push_back(y[i]) for each i
RowVectorUnconstrain(y) ==
  /\ w_pc = "ready"
  /\ Room(Len(y))
  /\ data_r_' = data_r_ \o VectorFree(y)
  /\ w_error' = "none"
  /\ UNCHANGED <<w_pc, data_i_, caller_r, caller_i, hmc_vars>>

row_vector_unconstrain == \E y \in VectorArgs : RowVectorUnconstrain(y)

\* the matrices handed to matrix_unconstrain: rows, cols and the
\* coefficient at each <<row, column>>
MatrixValues == {1, 2}
MatrixShapes ==
  {s \in (0..MaxVector) \X (0..MaxVector) : s[1] * s[2] <= MaxWritten}
MatrixArgs ==
  UNION {{[rows |-> s[1], cols |-> s[2], at |-> a] :
            a \in [(1..s[1]) \X (1..s[2]) -> MatrixValues]} :
         s \in MatrixShapes}

\* matrix_unconstrain(y): for each column j, for each row i,
\* data_r_.push_back(y(i, j))
MatrixUnconstrain(y) ==
  /\ w_pc = "ready"
  /\ Room(y.rows * y.cols)
  /\ data_r_' = data_r_ \o MatrixFree(y)
  /\ w_error' = "none"
  /\ UNCHANGED <<w_pc, data_i_, caller_r, caller_i, hmc_vars>>

matrix_unconstrain == \E y \in MatrixArgs : MatrixUnconstrain(y)

WriterNext ==
  \/ writer
  \/ integer
  \/ scalar_unconstrain
  \/ scalar_pos_unconstrain
  \/ ordered_unconstrain
  \/ positive_ordered_unconstrain
  \/ vector_unconstrain
  \/ row_vector_unconstrain
  \/ matrix_unconstrain

WriterSpec == WriterInit /\ [][WriterNext]_vars

\* the writer before its construction, on two empty vectors or on two
\* vectors that hold a value each
BufferInit ==
  /\ WriterInit
  /\ (caller_r = << >>) <=> (caller_i = << >>)

BufferSpec == BufferInit /\ [][WriterNext]_vars

\* every operation of base_hmc, in any order
ChainNext ==
  \/ seed
  \/ set_nominal_stepsize
  \/ init_stepsize
  \/ init_stepsize_loop
  \/ set_stepsize_jitter
  \/ sample_stepsize
  \/ init_hamiltonian
  \/ write_sampler_state
  \/ get_stepsize

ChainSpec == ChainInit /\ [][ChainNext]_vars

\* line 106, while (1): the loop goes round, and every iteration counts
\* one more probe
NextIteration == pc = "loop" /\ probes' = probes + 1

\* a call of init_stepsize runs on: the chain is one sequential thread,
\* which does not stop inside the loop
FairSpec == Spec /\ WF_probes(NextIteration)

\* ----------------------------------------------------------------- claims
Running == pc = "loop"
Returned == pc \in {"skipped", "accepted"}
Terminal == pc \in {"accepted", "failed"}

\* ------------------------------------------------- counting the rescales
\* the least n with e0 * 2^n >= 1e7, which is ceil(log2(1e7 / e0)) for a
\* step size e0 in (0, 1e7]
RECURSIVE CeilLog2Ratio(_)
CeilLog2Ratio(e0) ==
  IF e0 <= 0 \/ e0 >= Limit THEN 0 ELSE 1 + CeilLog2Ratio(2 * e0)

\* the least n with e0 * 2^n > 1e7, which is floor(log2(1e7 / e0)) + 1
RECURSIVE DoublingsToExceed(_)
DoublingsToExceed(e0) ==
  IF e0 <= 0 \/ e0 > Limit THEN 0 ELSE 1 + DoublingsToExceed(2 * e0)

\* 0.5 * (... (0.5 * x)), n times
RECURSIVE HalfTimes(_, _)
HalfTimes(x, n) == IF n <= 0 THEN x ELSE HalfTimes(MulDiv(x, 1, 2), n - 1)

\* the least n for which halving x n times gives 0
RECURSIVE HalvingsToZero(_)
HalvingsToZero(x) == IF x <= 0 THEN 0 ELSE 1 + HalvingsToZero(HalfTimes(x, 1))

\* C11 as claimed: when every probe has delta_H > ln(0.8), "posterior is
\* improper" is raised after at most ceil(log2(1e7 / e0)) iterations of
\* the loop, e0 the step size at entry, also when 1e7 / e0 is a power of 2.
HmcImproperWithinCeilLog2 ==
  pc = "failed" /\ error = "improper" => probes - 1 <= CeilLog2Ratio(eps_entry)

\* C11 amended: when every probe has delta_H > ln(0.8), the search runs
\* with direction +1 and a step size of e0 * 2^k after k iterations of the
\* loop, never above 1e7, and it raises "posterior is improper" in
\* iteration floor(log2(1e7 / e0)) + 1, not before and not later: that is
\* ceil(log2(1e7 / e0)) iterations, and one more when 1e7 / e0 is a power
\* of 2.
HmcImproperAfterFloorLog2Plus1 ==
  /\ Running /\ direction = 1 =>
       /\ nom_epsilon_ = eps_entry * Pow2(probes - 1)
       /\ nom_epsilon_ <= Limit
  /\ direction = 1 /\ probes >= 2 /\ Gt(delta_H, LogThreshold) =>
       Running \/ (pc = "failed" /\ error = "improper")
  /\ pc = "failed" /\ error = "improper" =>
       /\ direction = 1
       /\ Gt(delta_H, LogThreshold)
       /\ probes - 1 = DoublingsToExceed(eps_entry)
       /\ probes - 1 >= CeilLog2Ratio(eps_entry)
       /\ probes - 1 <= CeilLog2Ratio(eps_entry) + 1

\* C11 witness: from 1250000 = 1e7 / 8 the error came in the fourth
\* iteration of the loop.
HmcImproperAfterFloorLog2Plus1Witness ==
  /\ pc = "failed" /\ error = "improper"
  /\ eps_entry = Limit \div 8 /\ probes - 1 = 4

\* C12: when every probe has delta_H < ln(0.8), the search halves the step
\* size at every iteration of the loop, is not accepted and does not raise
\* "posterior is improper", and after as many iterations as it takes to
\* halve the entry step size to 0 it raises "no acceptably small step size".
HmcAllBelowUnderflows ==
  /\ Running /\ direction = -1 =>
       /\ nom_epsilon_ = HalfTimes(eps_entry, probes - 1)
       /\ nom_epsilon_ > 0
       /\ probes <= HalvingsToZero(eps_entry)
  /\ direction = -1 /\ probes >= 2 /\ Lt(delta_H, LogThreshold) =>
       Running \/ (pc = "failed" /\ error = "underflow" /\ nom_epsilon_ = 0)
  /\ pc = "failed" /\ error = "underflow" =>
       /\ direction = -1
       /\ Lt(delta_H, LogThreshold)
       /\ probes - 1 = HalvingsToZero(eps_entry)

\* C12 witness: a search that started at 3 units (0.5 * 3 is rounded) ended
\* with "no acceptably small step size".
HmcAllBelowUnderflowsWitness ==
  pc = "failed" /\ error = "underflow" /\ eps_entry = 3 /\ nom_epsilon_ = 0

\* C13: sample_stepsize leaves the nominal step size and the jitter
\* fraction j alone; with j = 0 it makes no uniform draw and sets the
\* current step size to the nominal one; with j # 0 it makes one draw u in
\* [0, 1) and sets the current step size to the double product
\* nominal * (1 + j(2u - 1)), which lies between the double products
\* nominal * (1 - j) and nominal * (1 + j).
HmcSampleStepsize ==
  [][sample_stepsize =>
       /\ nom_epsilon_' = nom_epsilon_
       /\ epsilon_jitter_' = epsilon_jitter_
       /\ epsilon_jitter_ = 0 =>
            /\ u_draws' = 0
            /\ epsilon_' = nom_epsilon_
       /\ epsilon_jitter_ # 0 =>
            /\ u_draws' = 1
            /\ u' >= 0 /\ u' < Unit
            /\ epsilon_' =
                 MulDiv(nom_epsilon_,
                        Unit * Unit + epsilon_jitter_ * (2 * u' - Unit),
                        Unit * Unit)
            /\ epsilon_' >= MulDiv(nom_epsilon_, Unit - epsilon_jitter_, Unit)
            /\ epsilon_' <= MulDiv(nom_epsilon_, Unit + epsilon_jitter_, Unit)]_vars

\* C13 witness: with a jitter of 0.5 and a draw of 0 the current step size
\* came out at half the nominal 1e7.
HmcSampleStepsizeWitness ==
  /\ u_draws = 1 /\ u = 0 /\ epsilon_jitter_ = Unit \div 2
  /\ nom_epsilon_ = Limit /\ 2 * epsilon_ = Limit

\* C14: set_stepsize_jitter raises no error and leaves the nominal and the
\* current step size alone; called with j outside (0, 1) it leaves the
\* jitter fraction alone too, called with 0 < j < 1 it sets it to j; so
\* the jitter fraction is always in [0, 1) and, once not 0, stays not 0.
HmcJitterSetter ==
  /\ [](epsilon_jitter_ >= 0 /\ epsilon_jitter_ < Unit)
  /\ [](pc # "loop" =>
          \A j \in JitterArgs :
            ENABLED (/\ set_stepsize_jitter
                     /\ epsilon_jitter_' =
                          IF j > 0 /\ j < Unit THEN j ELSE epsilon_jitter_))
  /\ [][epsilon_jitter_ # 0 => epsilon_jitter_' # 0]_vars
  /\ [][set_stepsize_jitter =>
          /\ error' = "none"
          /\ nom_epsilon_' = nom_epsilon_
          /\ epsilon_' = epsilon_
          /\ \E j \in JitterArgs :
               epsilon_jitter_' =
                 IF j > 0 /\ j < Unit THEN j ELSE epsilon_jitter_]_vars

\* C14 witness: the jitter fraction was set to 0.25 after it had been 0.5
\* at a sample_stepsize call.
HmcJitterSetterWitness ==
  /\ pc = "idle" /\ epsilon_jitter_ = Unit \div 4
  /\ nom_epsilon_ = Limit /\ 2 * epsilon_ = Limit

\* C15: the current step size changes only in sample_stepsize, the nominal
\* step size changes only in init_stepsize and set_nominal_stepsize; seed,
\* set_stepsize_jitter, sample_stepsize, init_hamiltonian, the write_ and
\* the get_ operations leave the nominal step size as it is.
HmcStepsizeFrame ==
  [][/\ epsilon_' # epsilon_ => sample_stepsize
     /\ nom_epsilon_' # nom_epsilon_ =>
          set_nominal_stepsize \/ init_stepsize \/ init_stepsize_loop
     /\ \/ seed
        \/ set_stepsize_jitter
        \/ sample_stepsize
        \/ init_hamiltonian
        \/ write_sampler_state
        \/ get_stepsize
        => nom_epsilon_' = nom_epsilon_]_vars

\* C15 witness: a search has doubled the nominal step size from 1250000 to
\* 2e7 while the current step size stayed at the 1250000 sampled before.
HmcStepsizeFrameWitness ==
  /\ pc = "failed" /\ error = "improper"
  /\ eps_entry = Limit \div 8 /\ epsilon_ = Limit \div 8
  /\ nom_epsilon_ = 2 * Limit

\* C16: after construction at Dim parameters and any sequence of seed,
\* init_stepsize and sample_stepsize calls the position has length Dim and
\* the momentum has the length of the position.
HmcLengthsFixed ==
  Len(z_.q) = Dim /\ Len(z_.p) = Len(z_.q)

\* C17: in every state reachable through the operations, the failures of
\* init_stepsize included, the nominal step size is strictly positive.
HmcNominalPositive ==
  nom_epsilon_ > 0

\* C18: a writer constructed on the vectors data_r and data_i writes to
\* them: after the construction and any writes, the two vectors of the
\* caller hold exactly what has been written, in order.
WriterWritesToCallerVectors ==
  w_pc = "ready" => caller_r = data_r_ /\ caller_i = data_i_

\* C19: for an ascending y that is not empty, ordered_unconstrain appends
\* log(y[0]) and then log(y[k] - y[k-1]) for each k > 0, which is what
\* positive_ordered_unconstrain appends for that y; for an empty y it
\* appends nothing.
WriterOrderedAppendsLogs ==
  [][\A y \in VectorArgs :
       OrderedUnconstrain(y) /\ w_error' = "none" =>
         /\ Len(y) = 0 => data_r_' = data_r_
         /\ Len(y) > 0 =>
              /\ data_r_' = data_r_ \o <<Log(y[1])>> \o LogIncrements(y)
              /\ y[1] >= 0 => data_r_' = data_r_ \o PositiveOrderedFree(y)]_vars

\* C20: a loop probe ends the search as accepted exactly when its delta_H
\* is not > ln(0.8) with direction +1, not < ln(0.8) with direction -1; a
\* delta_H equal to ln(0.8) ends it in either direction; the accepted
\* nominal step size is the one the last probe ran with.
HmcStopsAtFirstOffSide ==
  /\ probes >= 2 =>
       (pc = "accepted" <=>
          \/ direction = 1 /\ ~Gt(delta_H, LogThreshold)
          \/ direction = -1 /\ ~Lt(delta_H, LogThreshold))
  /\ probes >= 2 /\ delta_H = Fin(LogThreshold) => pc = "accepted"
  /\ pc = "accepted" => probes >= 2 /\ nom_epsilon_ = probe_eps

\* C20 witness: a doubling search was accepted at a delta_H equal to
\* ln(0.8), at a step size it had doubled at least once.
HmcStopsAtFirstOffSideWitness ==
  /\ pc = "accepted" /\ direction = 1 /\ delta_H = Fin(LogThreshold)
  /\ probes >= 3 /\ nom_epsilon_ > eps_entry

\* C21: every probe of a search, the first one and each one of the loop,
\* starts from the point saved in z_init when the search began, never from
\* the point the previous probe's evolve left behind, and makes, in this
\* order, one sample_p, one init, one H (H0), one evolve at the nominal
\* step size of that moment and one H (h): one momentum draw and two
\* evaluations of H per probe.
HmcProbesRestart ==
  /\ probes > 0 =>
       /\ probe_from = z_init
       /\ z_init = z_entry
       /\ probe_calls = <<"sample_p", "init", "H", "evolve", "H">>
       /\ rng_draws = probes
       /\ H_calls = 2 * probes
       /\ probes = 1 \/ pc = "accepted" => probe_eps = nom_epsilon_
       /\ probes = 2 => probe_eps = prev_probe_eps
       /\ probes >= 3 /\ direction = 1 => probe_eps = 2 * prev_probe_eps
  /\ Running => z_ = z_init

\* C21 witness: a search failed at its third probe or later with the point
\* moved by the last evolve, and that probe had started from z_init.
HmcProbesRestartWitness ==
  /\ pc = "failed" /\ probes >= 3
  /\ z_.q # z_init.q
  /\ probe_from = z_init

\* C22: once a search has ended with a fatal error, the next call of
\* init_stepsize on the same sampler does not return normally: neither
\* from a search that accepted a step size nor from the skip of lines
\* 86-87, which returns as if the step size were already tuned.
HmcNoNormalReturnAfterFailure ==
  [][pc = "failed" /\ init_stepsize => ~Returned']_vars

\* C23: whenever control is with the caller, update_L_ has been called
\* since the last assignment to nom_epsilon_: what the derived sampler
\* computes from the nominal step size is never stale.
HmcLengthNeverStale == pc # "loop" => ~L_stale

\* C24: the two buffers of a writer only grow, and each on its own: every
\* write leaves what data_r() and data_i() returned before it as a prefix
\* of what they return after it; integer(n) appends one value to the
\* integer buffer and leaves the real buffer as it is; every *_unconstrain
\* leaves the integer buffer as it is (no step that changes the integer
\* buffer is an *_unconstrain step); vector_unconstrain appends the
\* Len(y) coefficients of y in index order, matrix_unconstrain the
\* rows * cols coefficients of y column by column; a newly constructed
\* writer has both buffers empty whatever the vectors handed to the
\* constructor held.
WriterBuffersAppendOnly ==
  [][/\ w_pc = "ready" =>
          /\ Len(data_r_') >= Len(data_r_)
          /\ Len(data_i_') >= Len(data_i_)
          /\ SubSeq(data_r_', 1, Len(data_r_)) = data_r_
          /\ SubSeq(data_i_', 1, Len(data_i_)) = data_i_
     /\ integer =>
          /\ Len(data_i_') = Len(data_i_) + 1
          /\ data_r_' = data_r_
     /\ data_i_' # data_i_ =>
          ~ \/ scalar_unconstrain
            \/ scalar_pos_unconstrain
            \/ ordered_unconstrain
            \/ positive_ordered_unconstrain
            \/ vector_unconstrain
            \/ row_vector_unconstrain
            \/ matrix_unconstrain
     /\ \A y \in VectorArgs :
          VectorUnconstrain(y) =>
            /\ Len(data_r_') = Len(data_r_) + Len(y)
            /\ \A i \in 1..Len(y) : data_r_'[Len(data_r_) + i] = Fin(y[i])
     /\ \A y \in MatrixArgs :
          MatrixUnconstrain(y) =>
            /\ Len(data_r_') = Len(data_r_) + y.rows * y.cols
            /\ \A i \in 1..y.rows : \A j \in 1..y.cols :
                 data_r_'[Len(data_r_) + (j - 1) * y.rows + i]
                   = Fin(y.at[<<i, j>>])
     /\ writer => data_r_' = << >> /\ data_i_' = << >>]_vars

\* C24 witness: a writer constructed on two vectors that were not empty
\* holds no integer and the four coefficients of a 2 x 2 matrix with
\* rows (1, 2) and (1, 2), column by column.
WriterBuffersAppendOnlyWitness ==
  /\ w_pc = "ready"
  /\ caller_r # << >> /\ caller_i # << >>
  /\ data_i_ = << >>
  /\ data_r_ = <<Fin(1), Fin(1), Fin(2), Fin(2)>>

\* C1: whenever init_stepsize returns normally (skipped or accepted), the
\* position and the momentum are what they were when it was called.
HmcReturnRestoresPoint ==
  Returned => z_.q = z_entry.q /\ z_.p = z_entry.p

\* C1 witness: a search that rescaled the step size was accepted.
HmcReturnRestoresPointWitness ==
  pc = "accepted" /\ probes >= 3 /\ nom_epsilon_ # eps_entry

\* C2: when init_stepsize ends with one of its two fatal errors, the
\* position and the momentum have been restored to those saved at entry.
HmcFailureRestoresPoint ==
  pc = "failed" => z_.q = z_entry.q /\ z_.p = z_entry.p

\* C3: a search started from a step size in (0, 1e7] reaches a terminal
\* state (accepted or failed), whatever energies H returns: it leaves the
\* loop only into accepted or failed (a search that has probed is in the
\* loop, accepted or failed), in the loop the next iteration can always
\* be taken, and the search does not stay in the loop forever.
HmcSearchTerminates ==
  /\ [](probes > 0 => Running \/ Terminal)
  /\ [](Running => ENABLED init_stepsize_loop)
  /\ []<>(~Running)

\* C3 witness: a search that started at 1e7 halved its way down to 0.
HmcSearchTerminatesWitness ==
  pc = "failed" /\ error = "underflow" /\ eps_entry = Limit /\ probes > 20

\* C4 as claimed: when the search is accepted, the last probe's delta_H is
\* on the side of ln(0.8) that matches the direction: > for +1, < for -1.
HmcAcceptedOnDirectionSide ==
  pc = "accepted" =>
    /\ direction = 1 => Gt(delta_H, LogThreshold)
    /\ direction = -1 => Lt(delta_H, LogThreshold)

\* C4 amended: when the search is accepted, the last probe, taken at the
\* returned step size, had a delta_H that is not on the direction's side:
\* not > ln(0.8) for direction +1, not < ln(0.8) for direction -1.
HmcAcceptedOffDirectionSide ==
  pc = "accepted" =>
    /\ probe_eps = nom_epsilon_
    /\ direction \in {1, -1}
    /\ direction = 1 => ~Gt(delta_H, LogThreshold)
    /\ direction = -1 => ~Lt(delta_H, LogThreshold)

\* C4 witness: a doubling search accepted at a finite delta_H below ln(0.8).
HmcAcceptedOffDirectionSideWitness ==
  /\ pc = "accepted" /\ direction = 1 /\ probes >= 3
  /\ delta_H.k = "fin" /\ delta_H.v <= LogThreshold

\* C5: "posterior is improper" is raised iff a rescale made the step size
\* exceed 1e7, "no acceptably small step size" iff a rescale made it 0, and
\* no probe runs with a step size that is 0 or above 1e7.
HmcFatalIffOutOfRange ==
  /\ pc = "failed" <=> error # "none"
  /\ error = "improper" <=>
       (Terminal /\ nom_epsilon_ # probe_eps /\ nom_epsilon_ > Limit)
  /\ error = "underflow" <=>
       (Terminal /\ nom_epsilon_ # probe_eps /\ nom_epsilon_ = 0)
  /\ Running => nom_epsilon_ > 0 /\ nom_epsilon_ <= Limit
  /\ probes > 0 => probe_eps > 0 /\ probe_eps <= Limit

\* C5 witness: a probe at exactly 1e7 was followed by the doubling that
\* raised "posterior is improper".
HmcFatalIffOutOfRangeWitness ==
  pc = "failed" /\ error = "improper" /\ probe_eps = Limit /\ probes >= 3

\* C6: called with a step size of 0 or above 1e7, init_stepsize returns
\* without error, without a momentum draw, an H or an evolve call, and with
\* step size, position and momentum unchanged; a step size of exactly 1e7
\* is not skipped.
HmcSkipsExtremeStepsize ==
  /\ pc = "skipped" <=>
       (pc \in {"skipped", "loop", "accepted", "failed"}
          /\ (eps_entry = 0 \/ eps_entry > Limit))
  /\ pc = "skipped" =>
       /\ error = "none"
       /\ rng_draws = 0 /\ H_calls = 0 /\ probes = 0
       /\ nom_epsilon_ = eps_entry
       /\ z_ = z_entry

\* C6 witness: a call skipped at step size 0 (left by an underflow).
HmcSkipsExtremeStepsizeWitness ==
  pc = "skipped" /\ eps_entry = 0

\* C7: the direction is decided once, from the first probe's delta_H (+1 if
\* delta_H > ln(0.8), else -1), never changes during the call, and every
\* rescale is 2.0 * eps for +1 and 0.5 * eps for -1.
HmcDirectionDecidedOnce ==
  /\ [](Running /\ probes = 1 =>
          direction = IF Gt(delta_H, LogThreshold) THEN 1 ELSE -1)
  /\ [](Running => direction \in {1, -1})
  /\ [][Running =>
          /\ direction' = direction
          /\ nom_epsilon_' # nom_epsilon_ =>
                nom_epsilon_' = IF direction = 1 THEN Twice(nom_epsilon_)
                                                 ELSE Half(nom_epsilon_)]_vars

\* C7 witness: a halving search, three probes in, below its starting size.
HmcDirectionDecidedOnceWitness ==
  Running /\ direction = -1 /\ probes >= 3 /\ nom_epsilon_ < eps_entry

\* C8 as claimed: for every two consecutive probes of a call, the first and
\* the first of the loop included, the later step size is exactly twice or
\* exactly half the earlier one.
HmcConsecutiveProbesScaled ==
  probes >= 2 =>
    \/ probe_eps = 2 * prev_probe_eps
    \/ 2 * probe_eps = prev_probe_eps

\* C8 amended: the first probe of the loop runs at the step size of the
\* direction-fixing probe, unchanged; for two consecutive probes of the
\* loop the later step size is 2.0 * or 0.5 * the earlier one as the double
\* product gives it (0.5 * rounds to nearest-even once it is subnormal).
HmcLoopProbesScaled ==
  /\ probes = 2 => probe_eps = prev_probe_eps
  /\ probes >= 3 =>
       \/ probe_eps = Twice(prev_probe_eps)
       \/ probe_eps = Half(prev_probe_eps)

\* C8 witness: a loop probe at a halved step size that was rounded.
HmcLoopProbesScaledWitness ==
  probes >= 3 /\ direction = -1 /\ 2 * probe_eps # prev_probe_eps

\* C9 as claimed: no NaN returned by H, for H0 or for h, reaches the
\* computation of delta_H and its comparison with ln(0.8).
HmcNoNaNEnergyCompared ==
  probes > 0 => H0.k # "nan" /\ h.k # "nan"

\* C9 amended: a NaN returned by H for h, the energy after the step, is
\* replaced by +infinity before delta_H = H0 - h is computed; H0 is used as
\* returned, so delta_H is NaN, and is compared, exactly when H0 is NaN or
\* H0 and h are infinities of the same sign.
HmcAfterStepNaNCoerced ==
  probes > 0 =>
    /\ h.k # "nan"
    /\ h = IF h_raw.k = "nan" THEN PInf ELSE h_raw
    /\ delta_H = Sub(H0, h)
    /\ delta_H.k = "nan" <=>
         (H0.k = "nan" \/ (H0.k = h.k /\ H0.k \in {"pinf", "ninf"}))

\* C9 witness: H returned NaN after the step and h became +infinity.
HmcAfterStepNaNCoercedWitness ==
  probes > 1 /\ h_raw.k = "nan" /\ h.k = "pinf" /\ H0.k = "fin"

\* C10: with an H that returns NaN on every call the search ends after
\* finitely many probes, and ends as it does with an H that returns
\* +infinity on every call: the first probe fixes direction -1, the second
\* probe follows and is accepted, the step size and the point as at entry.
HmcNaNLikeInfinity ==
  hamiltonian_ \in {"nan", "pinf"} =>
    /\ pc # "failed"
    /\ Running => probes = 1 /\ direction = -1 /\ ENABLED init_stepsize_loop
    /\ pc = "accepted" =>
          /\ probes = 2
          /\ nom_epsilon_ = eps_entry
          /\ z_ = z_entry
          /\ delta_H.k = "nan"

\* C10 witness: a search with the all-NaN H was accepted from 1e7.
HmcNaNLikeInfinityWitness ==
  hamiltonian_ = "nan" /\ pc = "accepted" /\ eps_entry = Limit

====
